---- MODULE Spec2Model ----
(***************************************************************************)
(* Job lifecycle and asynchronous execution pipeline of the quant-finance  *)
(* platform: the backend job API (backend/app/api/jobs.py), the Job record *)
(* (backend/app/models.py), the Pub/Sub publisher (backend/app/pubsub.py)  *)
(* and the worker push handler (backend/worker/main.py, gcs.py).           *)
(***************************************************************************)
EXTENDS Integers, Sequences, FiniteSets, TLC

VARIABLES
    jobs,       \* the jobs table: job id -> Job row
    publisher,  \* PubSubPublisher.publisher: "client" or "none" (disabled)
    topic,      \* messages published on the jobs topic, in publish order
    lastResp,   \* response of the last backend API call
    hs,         \* worker push handlers: worker -> position and locals
    gcs,        \* objects of the artifacts bucket: set of object keys
    processed,  \* job ids for which a process_job call has returned
    deliveries, \* number of push requests received so far
    now,        \* the clock read by datetime.utcnow()
    cancelling, \* cancel_job requests between their checks and their write:
                \* database session -> the row the session has read
    parsing,    \* ingestor: a vendor response and the records parsed from it
    batch,      \* ingestor: a batch ingestion request and its responses
    fetch,      \* ingestor: a vendor fetch, its attempts and its result
    vendor_symbol_map  \* ingestor: rows of the vendor_symbol_map table

vars == <<jobs, publisher, topic, lastResp, hs, gcs, processed, deliveries, now,
         cancelling, parsing, batch, fetch, vendor_symbol_map>>

\* The state of the ingestor services and the state of the backend
ingestVars == <<parsing, batch, fetch, vendor_symbol_map>>
backendVars == <<jobs, publisher, topic, lastResp, hs, gcs, processed, deliveries,
                 now, cancelling>>

workerVars == <<hs, gcs, processed, deliveries>>

-----------------------------------------------------------------------------
(* Bounds of the model *)

MaxTime == 1
MaxDeliveries == 3

\* Two push handlers can be in flight at once.  Job rows are independent of
\* each other, and the model follows the row of one job id.
Workers == {"w1", "w2"}
JobIds == {"job-1"}

-----------------------------------------------------------------------------
(* HTTP status codes used by the handlers *)

HTTP_200_OK == 200
HTTP_400_BAD_REQUEST == 400
HTTP_401_UNAUTHORIZED == 401
HTTP_500_INTERNAL_SERVER_ERROR == 500

\* Push delivery contract: a success status acknowledges the message, every
\* other status is a negative acknowledgement and the broker redelivers.
IsAck(code) == code \in {102, 200, 201, 202, 204}

-----------------------------------------------------------------------------
(* Nullable columns: None is the empty set, a value v is {v} *)

Null == {}
Some(v) == {v}
Get(o) == CHOOSE v \in o : TRUE

JobTypes == {"montecarlo", "markowitz", "blackscholes", "backtest"}
Statuses == {"queued", "running", "completed", "failed", "cancelled"}
DefaultUser == "user-0001"

\* symbols of a request: min_items=1, max_items=100.  A row keeps the list;
\* the model keeps its length, the only thing the code reads off it.
MaxSymbols == 100
SymbolCounts == {1, MaxSymbols}

\* Job(...) as constructed by Job.create_job: status queued, created_at by the
\* column default, every nullable column None.
NewJob(user, type, symbols, t) ==
    [user_id |-> user, type |-> type, symbols |-> symbols, status |-> "queued",
     created_at |-> t, started_at |-> Null, finished_at |-> Null,
     result_refs |-> Null, error |-> Null]

-----------------------------------------------------------------------------
(* Job row methods (backend/app/models.py) *)

\* update_status called without keyword arguments
NoKwargs == <<>>

\* for key, value in kwargs.items(): if hasattr(self, key): setattr(...)
ApplyKwargs(job, kw) ==
    [f \in DOMAIN job |-> IF f \in DOMAIN kw THEN kw[f] ELSE job[f]]

\* An update_status that stamps started_at on every call with "running"
update_status_restamping(job, status, kw, t) ==
    LET j1 == [job EXCEPT !.status = status]
        j2 == IF status = "running"
                  THEN [j1 EXCEPT !.started_at = Some(t)]
              ELSE IF status \in {"completed", "failed"} /\ j1.finished_at = Null
                  THEN [j1 EXCEPT !.finished_at = Some(t)]
              ELSE j1
    IN  ApplyKwargs(j2, kw)

\* Job.update_status: the status is assigned unconditionally; started_at and
\* finished_at are stamped only when unset; then the keyword arguments.
update_status(job, status, kw, t) ==
    LET j1 == [job EXCEPT !.status = status]
        j2 == IF status = "running" /\ j1.started_at = Null
                  THEN [j1 EXCEPT !.started_at = Some(t)]
              ELSE IF status \in {"completed", "failed"} /\ j1.finished_at = Null
                  THEN [j1 EXCEPT !.finished_at = Some(t)]
              ELSE j1
    IN  ApplyKwargs(j2, kw)

\* Job.set_error
set_error(job, error, t) ==
    update_status([job EXCEPT !.error = Some(error)], "failed", NoKwargs, t)

\* Job.set_results
set_results(job, refs, t) ==
    update_status([job EXCEPT !.result_refs = Some(refs)], "completed", NoKwargs, t)

-----------------------------------------------------------------------------
(* Publisher (backend/app/pubsub.py) *)

\* The dispatch message built by create_job for a persisted job
Message(id, job) == [job_id |-> id, type |-> job.type]

\* A publisher that reports success with a client but publishes nothing
publish_job_dropping(pub, tp, msg, ok) ==
    IF pub = "none" \/ ok THEN [raised |-> FALSE, topic |-> tp]
    ELSE [raised |-> TRUE, topic |-> tp]

\* PubSubPublisher.publish_job: without a client nothing is published and
\* None is returned; with a client the message is published, or the publish
\* call raises (ok = FALSE) and the exception is re-raised.
publish_job(pub, tp, msg, ok) ==
    IF pub = "none" THEN [raised |-> FALSE, topic |-> tp]
    ELSE IF ok THEN [raised |-> FALSE, topic |-> Append(tp, msg)]
    ELSE [raised |-> TRUE, topic |-> tp]

-----------------------------------------------------------------------------
(* Backend API handlers (backend/app/api/jobs.py) *)

CurrentUser == DefaultUser
NoResp == [op |-> "none", code |-> 0, job_id |-> "none"]

\* uuid4 primary key of the next row: an id no row has
FreshId == CHOOSE id \in JobIds : id \notin DOMAIN jobs

\* A create_job whose except branch undoes the insert of the row
CreateJobRollingBack(type, symbols, dbOk, pubOk) ==
    /\ JobIds \ DOMAIN jobs # {}
    /\ LET id == FreshId
           job == NewJob(CurrentUser, type, symbols, now)
           pub == publish_job(publisher, topic, Message(id, job), pubOk)
       IN  IF ~dbOk \/ pub.raised
               THEN /\ lastResp' = [op |-> "create_job", job_id |-> "none",
                                    code |-> HTTP_500_INTERNAL_SERVER_ERROR]
                    /\ UNCHANGED <<jobs, topic>>
           ELSE /\ jobs' = jobs @@ (id :> job)
                /\ topic' = pub.topic
                /\ lastResp' = [op |-> "create_job", job_id |-> id,
                                code |-> HTTP_200_OK]
    /\ UNCHANGED <<publisher, now>>
    /\ UNCHANGED <<workerVars, cancelling, ingestVars>>

\* POST /v1/jobs/ with a request that passed validation.  dbOk = FALSE: the
\* insert/commit of Job.create_job raises.  pubOk = FALSE: the publish raises.
\* The except branch rolls back the session, which cannot undo the commit
\* Job.create_job already made.
CreateJob(type, symbols, dbOk, pubOk) ==
    /\ JobIds \ DOMAIN jobs # {}
    /\ LET id == FreshId
           job == NewJob(CurrentUser, type, symbols, now)
           pub == publish_job(publisher, topic, Message(id, job), pubOk)
       IN  IF ~dbOk
               THEN /\ lastResp' = [op |-> "create_job", job_id |-> "none",
                                    code |-> HTTP_500_INTERNAL_SERVER_ERROR]
                    /\ UNCHANGED <<jobs, topic>>
           ELSE /\ jobs' = jobs @@ (id :> job)
                /\ topic' = pub.topic
                /\ lastResp' = IF pub.raised
                                   THEN [op |-> "create_job", job_id |-> "none",
                                         code |-> HTTP_500_INTERNAL_SERVER_ERROR]
                                   ELSE [op |-> "create_job", job_id |-> id,
                                         code |-> HTTP_200_OK]
    /\ UNCHANGED <<publisher, now>>
    /\ UNCHANGED <<workerVars, cancelling, ingestVars>>

-----------------------------------------------------------------------------
(* Validation of the dates of a CreateJobRequest (backend/app/schemas.py).   *)
(* A string is a sequence of one-character strings.                         *)

Digits == <<"0", "1", "2", "3", "4", "5", "6", "7", "8", "9">>
IsDigit(c) == \E i \in 1..10 : Digits[i] = c
DigitValue(c) == (CHOOSE i \in 1..10 : Digits[i] = c) - 1

\* Code point of a character: "-" and "/" sort before the digits
Ord(c) == IF c = "-" THEN 45 ELSE IF c = "/" THEN 47 ELSE 48 + DigitValue(c)

\* a < b and a <= b on Python strings: by code point at the first difference,
\* a proper prefix being the smaller
StrLess(a, b) ==
    \E k \in 1..(Len(a) + 1) :
        /\ k <= Len(b)
        /\ \A i \in 1..(k - 1) : a[i] = b[i]
        /\ k = Len(a) + 1 \/ Ord(a[k]) < Ord(b[k])
StrLE(a, b) == a = b \/ StrLess(a, b)

\* int() of a string of digits
RECURSIVE IntOf(_)
IntOf(ds) == IF ds = <<>> THEN 0
             ELSE 10 * IntOf(SubSeq(ds, 1, Len(ds) - 1)) + DigitValue(ds[Len(ds)])

AllDigits(ds) == \A i \in 1..Len(ds) : IsDigit(ds[i])

IsLeap(y) == (y % 4 = 0 /\ y % 100 # 0) \/ y % 400 = 0
DaysInMonth(y, m) ==
    IF m = 2 THEN (IF IsLeap(y) THEN 29 ELSE 28)
    ELSE IF m \in {4, 6, 9, 11} THEN 30 ELSE 31

NoDate == <<0, 0, 0>>

\* datetime.strptime(v, "%Y-%m-%d"): a year of four digits, a month and a day
\* of one or two digits that do not spell zero, separated by "-", naming a
\* day of the calendar; anything else raises ValueError
strptime(v) ==
    LET dashes == {i \in 1..Len(v) : v[i] = "-"}
        d1 == CHOOSE i \in dashes : \A k \in dashes : i <= k
        d2 == CHOOSE i \in dashes : \A k \in dashes : i >= k
        ys == SubSeq(v, 1, d1 - 1)
        ms == SubSeq(v, d1 + 1, d2 - 1)
        ds == SubSeq(v, d2 + 1, Len(v))
    IN  IF Cardinality(dashes) # 2 THEN [raised |-> TRUE, date |-> NoDate]
        ELSE IF ~(AllDigits(ys) /\ AllDigits(ms) /\ AllDigits(ds))
            THEN [raised |-> TRUE, date |-> NoDate]
        ELSE IF ~(Len(ys) = 4 /\ Len(ms) \in {1, 2} /\ Len(ds) \in {1, 2})
            THEN [raised |-> TRUE, date |-> NoDate]
        ELSE IF ~(IntOf(ms) \in 1..12)
            THEN [raised |-> TRUE, date |-> NoDate]
        ELSE IF ~(IntOf(ds) \in 1..DaysInMonth(IntOf(ys), IntOf(ms)))
            THEN [raised |-> TRUE, date |-> NoDate]
        ELSE [raised |-> FALSE, date |-> <<IntOf(ys), IntOf(ms), IntOf(ds)>>]

\* Order of calendar dates <<year, month, day>>
DateLess(a, b) ==
    \/ a[1] < b[1]
    \/ a[1] = b[1] /\ a[2] < b[2]
    \/ a[1] = b[1] /\ a[2] = b[2] /\ a[3] < b[3]
DateLE(a, b) == a = b \/ DateLess(a, b)

\* The day datetime.now() falls on
Today == <<2024, 10, 15>>

\* validate_dates: TRUE when the validator returns v, FALSE when it raises
validate_dates(v) ==
    /\ ~strptime(v).raised
    /\ DateLE(strptime(v).date, Today)

\* validate_date_range on the end date v, run after validate_dates accepted
\* it; values holds "start" only when the start date passed validate_dates.
\* TRUE when the validator returns v, FALSE when it raises.
validate_date_range(v, start) ==
    ~(validate_dates(start) /\ StrLE(v, start))

\* The request model accepts the two dates
DatesAccepted(start, end) ==
    /\ validate_dates(start)
    /\ validate_dates(end)
    /\ validate_date_range(end, start)

HTTP_422_UNPROCESSABLE_ENTITY == 422
HTTP_403_FORBIDDEN == 403
HTTP_404_NOT_FOUND == 404

\* POST /v1/jobs/: the request body is validated against CreateJobRequest
\* first and a validation error is answered 422 before create_job runs
SubmitJob(type, symbols, start, end, dbOk, pubOk) ==
    IF DatesAccepted(start, end)
        THEN CreateJob(type, symbols, dbOk, pubOk)
    ELSE /\ lastResp' = [op |-> "create_job", job_id |-> "none",
                         code |-> HTTP_422_UNPROCESSABLE_ENTITY]
         /\ UNCHANGED <<jobs, publisher, topic, now>>
         /\ UNCHANGED <<workerVars, cancelling, ingestVars>>

\* An ownership check that lets every caller through
OwnerMismatchNever(job, user) == FALSE

\* if str(job.user_id) != str(current_user.id)
OwnerMismatch(job, user) == job.user_id # user

\* A status check that also lets running jobs through
NotCancellableLax(job) == job.status \notin {"queued", "running"}

\* if job.status != "queued": only queued jobs can be cancelled
NotCancellable(job) == job.status # "queued"

\* DELETE /v1/jobs/{job_id} with a well-formed job id
CancelJob(j) ==
    /\ IF j \notin DOMAIN jobs
           THEN /\ lastResp' = [op |-> "cancel_job", job_id |-> j,
                                code |-> HTTP_404_NOT_FOUND]
                /\ UNCHANGED jobs
       ELSE IF OwnerMismatch(jobs[j], CurrentUser)
           THEN /\ lastResp' = [op |-> "cancel_job", job_id |-> j,
                                code |-> HTTP_403_FORBIDDEN]
                /\ UNCHANGED jobs
       ELSE IF NotCancellable(jobs[j])
           THEN /\ lastResp' = [op |-> "cancel_job", job_id |-> j,
                                code |-> HTTP_400_BAD_REQUEST]
                /\ UNCHANGED jobs
       ELSE /\ jobs' = [jobs EXCEPT ![j] = update_status(@, "cancelled", NoKwargs, now)]
            /\ lastResp' = [op |-> "cancel_job", job_id |-> j, code |-> HTTP_200_OK]
    /\ UNCHANGED <<publisher, topic, now>>
    /\ UNCHANGED <<workerVars, cancelling, ingestVars>>

-----------------------------------------------------------------------------
(* cancel_job as the database sees it: the SELECT of Job.get_job and, after *)
(* the checks, the UPDATE of the commit, with other sessions in between     *)

Sessions == {"s1", "s2"}
NoRow == [job_id |-> "none", row |-> <<>>]

\* cancel_job up to the call of update_status: the row is read and checked.
\* A request that fails a check is answered; otherwise the session holds the
\* row it has read.
CancelRead(s, j) ==
    /\ cancelling[s] = NoRow
    /\ IF j \notin DOMAIN jobs
           THEN /\ lastResp' = [op |-> "cancel_job", job_id |-> j,
                                code |-> HTTP_404_NOT_FOUND]
                /\ UNCHANGED cancelling
       ELSE IF OwnerMismatch(jobs[j], CurrentUser)
           THEN /\ lastResp' = [op |-> "cancel_job", job_id |-> j,
                                code |-> HTTP_403_FORBIDDEN]
                /\ UNCHANGED cancelling
       ELSE IF NotCancellable(jobs[j])
           THEN /\ lastResp' = [op |-> "cancel_job", job_id |-> j,
                                code |-> HTTP_400_BAD_REQUEST]
                /\ UNCHANGED cancelling
       ELSE /\ cancelling' = [cancelling EXCEPT ![s] = [job_id |-> j, row |-> jobs[j]]]
            /\ UNCHANGED lastResp
    /\ UNCHANGED <<jobs, publisher, topic, now>>
    /\ UNCHANGED <<workerVars, ingestVars>>

\* The UPDATE a commit issues for an object read as row and changed to
\* changed: the columns that differ are written over the current row
Flush(current, row, changed) ==
    [f \in DOMAIN current |-> IF changed[f] # row[f] THEN changed[f] ELSE current[f]]

\* job.update_status(db, "cancelled") on the row the session has read, and
\* the answer of cancel_job
CancelWrite(s) ==
    /\ cancelling[s] # NoRow
    /\ LET j == cancelling[s].job_id
           row == cancelling[s].row
       IN  /\ jobs' = [jobs EXCEPT ![j] =
                          Flush(@, row, update_status(row, "cancelled", NoKwargs, now))]
           /\ lastResp' = [op |-> "cancel_job", job_id |-> j, code |-> HTTP_200_OK]
    /\ cancelling' = [cancelling EXCEPT ![s] = NoRow]
    /\ UNCHANGED <<publisher, topic, now>>
    /\ UNCHANGED <<workerVars, ingestVars>>

-----------------------------------------------------------------------------
(* Progress of a job as reported by get_job *)

\* Floats are kept as exact fractions num/den with den > 0
Frac(n, d) == [num |-> n, den |-> d]
FracLE(a, b) == a.num * b.den <= b.num * a.den
FracEq(a, b) == a.num * b.den = b.num * a.den

\* Seconds between two consecutive readings of the model clock
SecondsPerTick == 30

\* (a - b).total_seconds() for two timestamps
total_seconds(a, b) == (a - b) * SecondsPerTick

\* base_duration of _estimate_job_duration
base_duration(type) ==
    IF type = "montecarlo" THEN 30
    ELSE IF type = "markowitz" THEN 15
    ELSE IF type = "blackscholes" THEN 10
    ELSE IF type = "backtest" THEN 45
    ELSE 30

\* _estimate_job_duration: base + min(num_symbols * 2, 60)
estimate_job_duration(type, num_symbols) ==
    LET symbol_factor == IF num_symbols * 2 < 60 THEN num_symbols * 2 ELSE 60
    IN  base_duration(type) + symbol_factor

\* min(0.9, elapsed / estimated_duration)
MinNineTenths(elapsed, duration) ==
    IF 10 * elapsed < 9 * duration THEN Frac(elapsed, duration) ELSE Frac(9, 10)

\* A progress estimate without the cap at 0.9
calculate_job_progress_uncapped(job) ==
    IF job.status = "queued" THEN Some(Frac(0, 1))
    ELSE IF job.status = "running"
        THEN IF job.started_at # Null
                 THEN Some(Frac(total_seconds(Get(job.started_at), job.created_at),
                                estimate_job_duration(job.type, job.symbols)))
             ELSE Some(Frac(1, 2))
    ELSE IF job.status = "completed" THEN Some(Frac(1, 1))
    ELSE IF job.status = "failed" THEN Some(Frac(0, 1))
    ELSE Null

\* A progress estimate that answers completed jobs with the cap
calculate_job_progress_capping_completed(job) ==
    IF job.status = "queued" THEN Some(Frac(0, 1))
    ELSE IF job.status = "running"
        THEN IF job.started_at # Null
                 THEN Some(MinNineTenths(
                               total_seconds(Get(job.started_at), job.created_at),
                               estimate_job_duration(job.type, job.symbols)))
             ELSE Some(Frac(1, 2))
    ELSE IF job.status = "completed" THEN Some(Frac(9, 10))
    ELSE IF job.status = "failed" THEN Some(Frac(0, 1))
    ELSE Null

\* _calculate_job_progress: elapsed is started_at - created_at; created_at is
\* not nullable, so the timestamps are both there when started_at is
calculate_job_progress(job) ==
    IF job.status = "queued" THEN Some(Frac(0, 1))
    ELSE IF job.status = "running"
        THEN IF job.started_at # Null
                 THEN Some(MinNineTenths(
                               total_seconds(Get(job.started_at), job.created_at),
                               estimate_job_duration(job.type, job.symbols)))
             ELSE Some(Frac(1, 2))
    ELSE IF job.status = "completed" THEN Some(Frac(1, 1))
    ELSE IF job.status = "failed" THEN Some(Frac(0, 1))
    ELSE Null

\* The members of the JobStatus enumeration of the response schema
JobStatusEnum == {"queued", "running", "completed", "failed"}

\* The body of a JobStatusResponse for a row
JobView(j, job) ==
    [job_id |-> j, user_id |-> job.user_id, type |-> job.type,
     status |-> job.status, created_at |-> job.created_at,
     started_at |-> job.started_at, finished_at |-> job.finished_at,
     has_metrics |-> job.result_refs # Null, error |-> job.error,
     progress |-> calculate_job_progress(job)]

\* GET /v1/jobs/{job_id} by caller user with a well-formed job id, on the
\* table store: 404 without a row, 403 for a row of another owner; building
\* the response fails validation (500) for a status outside JobStatus
get_job(store, j, user) ==
    IF j \notin DOMAIN store
        THEN [code |-> HTTP_404_NOT_FOUND, body |-> Null]
    ELSE IF OwnerMismatch(store[j], user)
        THEN [code |-> HTTP_403_FORBIDDEN, body |-> Null]
    ELSE IF store[j].status \notin JobStatusEnum
        THEN [code |-> HTTP_500_INTERNAL_SERVER_ERROR, body |-> Null]
    ELSE [code |-> HTTP_200_OK, body |-> Some(JobView(j, store[j]))]

GetJob(j) ==
    /\ lastResp' = [op |-> "get_job", job_id |-> j,
                    code |-> get_job(jobs, j, CurrentUser).code]
    /\ UNCHANGED <<jobs, publisher, topic, now>>
    /\ UNCHANGED <<workerVars, cancelling, ingestVars>>

\* Time passes
Tick ==
    /\ now < MaxTime
    /\ now' = now + 1
    /\ UNCHANGED <<jobs, publisher, topic, lastResp, cancelling, ingestVars>>
    /\ UNCHANGED <<workerVars, cancelling, ingestVars>>

-----------------------------------------------------------------------------
(* Direct calls of the Job row methods, by any caller holding a row *)

ErrorTexts == {"boom"}
MetricsValues == {"m1"}
Users == {DefaultUser, "user-0002"}

\* Job.create_job called for any user
CreateJobCall(user, type, symbols) ==
    /\ JobIds \ DOMAIN jobs # {}
    /\ jobs' = jobs @@ (FreshId :> NewJob(user, type, symbols, now))
    /\ lastResp' = [op |-> "Job.create_job", job_id |-> FreshId, code |-> 0]
    /\ UNCHANGED <<publisher, topic, now>>
    /\ UNCHANGED <<workerVars, cancelling, ingestVars>>

UpdateStatusCall(j, status) ==
    /\ j \in DOMAIN jobs
    /\ jobs' = [jobs EXCEPT ![j] = update_status(@, status, NoKwargs, now)]
    /\ lastResp' = [op |-> "update_status", job_id |-> j, code |-> 0]
    /\ UNCHANGED <<publisher, topic, now>>
    /\ UNCHANGED <<workerVars, cancelling, ingestVars>>

\* Keyword arguments a caller can pass to update_status: any attribute of
\* the row
KwargSets == {[error |-> Some("boom")], [user_id |-> "user-0002"],
              [created_at |-> MaxTime]}

UpdateStatusKwCall(j, status, kw) ==
    /\ j \in DOMAIN jobs
    /\ jobs' = [jobs EXCEPT ![j] = update_status(@, status, kw, now)]
    /\ lastResp' = [op |-> "update_status", job_id |-> j, code |-> 0]
    /\ UNCHANGED <<publisher, topic, now>>
    /\ UNCHANGED <<workerVars, cancelling, ingestVars>>

SetErrorCall(j, e) ==
    /\ j \in DOMAIN jobs
    /\ jobs' = [jobs EXCEPT ![j] = set_error(@, e, now)]
    /\ lastResp' = [op |-> "set_error", job_id |-> j, code |-> 0]
    /\ UNCHANGED <<publisher, topic, now>>
    /\ UNCHANGED <<workerVars, cancelling, ingestVars>>

SetResultsCall(j, m) ==
    /\ j \in DOMAIN jobs
    /\ jobs' = [jobs EXCEPT ![j] = set_results(@, [metrics |-> m], now)]
    /\ lastResp' = [op |-> "set_results", job_id |-> j, code |-> 0]
    /\ UNCHANGED <<publisher, topic, now>>
    /\ UNCHANGED <<workerVars, cancelling, ingestVars>>


-----------------------------------------------------------------------------
(* Worker (backend/worker/main.py, models.py, gcs.py) *)

\* json.dumps(...).encode() by the publisher, base64 by the push envelope
Encode(msg) == [kind |-> "ok", payload |-> msg]

\* message.data of a push request: absent, not base64/utf-8, not JSON, JSON
\* that is no object, or the encoding of a published message
NoMsg == [job_id |-> "none", type |-> "none"]
Malformed == {[kind |-> k, payload |-> NoMsg] :
                 k \in {"missing", "bad_base64", "bad_json", "non_object"}}

\* base64.b64decode(data).decode("utf-8") then json.loads: the published
\* message for an encoding of one, an exception for the undecodable kinds;
\* JSON that is no object decodes, and job_data.get then raises
Decode(data) ==
    IF data.kind = "ok"
        THEN [raised |-> FALSE, is_object |-> TRUE, job_data |-> data.payload]
    ELSE IF data.kind = "non_object"
        THEN [raised |-> FALSE, is_object |-> FALSE, job_data |-> NoMsg]
    ELSE [raised |-> TRUE, is_object |-> FALSE, job_data |-> NoMsg]

AuthHeaders == {"absent", "Basic x", "Bearer x"}

\* An authentication check that only requires some Authorization header
AuthRejectedIfAbsent(h) == h = "absent"

\* not auth_header or not auth_header.startswith("Bearer ")
AuthRejected(h) == h = "absent" \/ h # "Bearer x"

\* The status process_pubsub_message answers a request with before it calls
\* process_job, 0 when it goes on to call process_job
Reject(auth, data) ==
    IF AuthRejected(auth) THEN HTTP_401_UNAUTHORIZED
    ELSE IF data.kind = "missing" THEN HTTP_400_BAD_REQUEST
    ELSE IF Decode(data).raised THEN HTTP_400_BAD_REQUEST
    ELSE IF ~Decode(data).is_object THEN HTTP_500_INTERNAL_SERVER_ERROR
    ELSE 0

\* Keys of the dictionary run_model returns for each job type
ModelResultKeys(type) ==
    IF type = "montecarlo" THEN {"metrics", "paths", "final_values"}
    ELSE IF type = "markowitz"
        THEN {"metrics", "weights", "covariance_matrix", "expected_returns"}
    ELSE IF type = "blackscholes" THEN {"metrics", "parameters"}
    ELSE {"metrics", "portfolio_values", "rebalance_dates", "strategy"}

\* f"jobs/{job_id}/{filename}"
ObjectKey(job_id, filename) == <<"jobs", job_id, filename>>

\* The table artifacts process_job writes after the metrics: prices.csv when
\* the results have a "prices" key, then simulation_paths.csv for montecarlo
\* with "paths", else portfolio_weights.csv for markowitz with "weights"
TableFiles(type) ==
    LET keys == ModelResultKeys(type)
    IN  (IF "prices" \in keys THEN <<"prices.csv">> ELSE <<>>)
        \o (IF type = "montecarlo" /\ "paths" \in keys
                THEN <<"simulation_paths.csv">>
            ELSE IF type = "markowitz" /\ "weights" \in keys
                THEN <<"portfolio_weights.csv">>
            ELSE <<>>)

\* The calls of the try block of process_job, in order: load_prices,
\* run_model, the uploads, generate_signed_urls
PipelineSteps(type) ==
    <<"load", "model", "metrics.json">> \o TableFiles(type)
        \o <<"summary.json", "urls">>

IsUpload(step) == step \notin {"load", "model", "urls"}

\* A process_job whose object names carry the number of objects in the
\* bucket at the start of the run
process_job_versioned(msg, store, failAt, errOk) ==
    LET steps == PipelineSteps(msg.type)
        last == IF failAt = 0 THEN Len(steps) ELSE failAt - 1
        ran == SubSeq(steps, 1, last)
        uploads == SelectSeq(ran, IsUpload)
        listed == SelectSeq(uploads, LAMBDA f : f # "summary.json")
        key(f) == <<"jobs", msg.job_id, f, Cardinality(store)>>
        store1 == store \cup {key(uploads[i]) : i \in 1..Len(uploads)}
    IN  IF failAt # 0
            THEN [raised |-> TRUE,
                  ran |-> ran,
                  gcs |-> IF errOk THEN store1 \cup {key("error.json")} ELSE store1,
                  artifacts |-> <<>>,
                  signed_urls |-> {}]
        ELSE [raised |-> FALSE,
              ran |-> ran,
              gcs |-> store1,
              artifacts |-> [i \in 1..Len(listed) |-> key(listed[i])],
              signed_urls |-> {k \in store1 : k[2] = msg.job_id}]

\* process_job on job data msg with the bucket holding store.  failAt = 0:
\* no call raises; failAt = k: the k-th call of the try block raises.  errOk:
\* whether the upload of error.json in the except branch succeeds.
process_job(msg, store, failAt, errOk) ==
    LET steps == PipelineSteps(msg.type)
        last == IF failAt = 0 THEN Len(steps) ELSE failAt - 1
        ran == SubSeq(steps, 1, last)
        uploads == SelectSeq(ran, IsUpload)
        listed == SelectSeq(uploads, LAMBDA f : f # "summary.json")
        store1 == store \cup {ObjectKey(msg.job_id, uploads[i]) : i \in 1..Len(uploads)}
    IN  IF failAt # 0
            THEN [raised |-> TRUE,
                  ran |-> ran,
                  gcs |-> IF errOk
                              THEN store1 \cup {ObjectKey(msg.job_id, "error.json")}
                              ELSE store1,
                  artifacts |-> <<>>,
                  signed_urls |-> {}]
        ELSE [raised |-> FALSE,
              ran |-> ran,
              gcs |-> store1,
              artifacts |-> [i \in 1..Len(listed) |-> ObjectKey(msg.job_id, listed[i])],
              signed_urls |-> {k \in store1 : k[2] = msg.job_id}]

Idle(code) == [pc |-> "idle", msg |-> NoMsg, code |-> code, raced |-> FALSE]

\* Handlers other than w that are inside process_job for job id j
Racing(w, j) == {v \in Workers \ {w} : hs[v].pc = "process" /\ hs[v].msg.job_id = j}

\* process_pubsub_message up to the call of process_job: authentication,
\* body, message data, decoding.  A request the handler rejects is answered
\* at once; otherwise process_job starts on the decoded job data.  raced
\* remembers that another handler was inside process_job for the same job.
Receive(w, auth, data) ==
    /\ hs[w].pc = "idle"
    /\ deliveries < MaxDeliveries
    /\ data \in Malformed \/ \E i \in 1..Len(topic) : data = Encode(topic[i])
    /\ deliveries' = deliveries + 1
    /\ LET job_data == Decode(data).job_data
           peers == Racing(w, job_data.job_id)
       IN  IF Reject(auth, data) # 0
               THEN hs' = [hs EXCEPT ![w] = Idle(Reject(auth, data))]
           ELSE hs' = [v \in Workers |->
                          IF v = w THEN [pc |-> "process", msg |-> job_data,
                                         code |-> 0, raced |-> peers # {}]
                          ELSE IF v \in peers THEN [hs[v] EXCEPT !.raced = TRUE]
                          ELSE hs[v]]
    /\ UNCHANGED <<gcs, processed, now>>
    /\ UNCHANGED <<jobs, publisher, topic, lastResp, cancelling, ingestVars>>

\* process_job and the answer of the push handler: 200 when process_job
\* returns, 500 when it raises
ProcessJob(w, failAt, errOk) ==
    /\ hs[w].pc = "process"
    /\ failAt \in 0..Len(PipelineSteps(hs[w].msg.type))
    /\ LET r == process_job(hs[w].msg, gcs, failAt, errOk)
       IN  /\ gcs' = r.gcs
           /\ processed' = IF r.raised THEN processed
                           ELSE processed \cup {hs[w].msg.job_id}
           /\ hs' = [hs EXCEPT ![w] =
                        [@ EXCEPT !.pc = "idle",
                                  !.code = IF r.raised
                                               THEN HTTP_500_INTERNAL_SERVER_ERROR
                                               ELSE HTTP_200_OK]]
    /\ UNCHANGED <<deliveries, now>>
    /\ UNCHANGED <<jobs, publisher, topic, lastResp, cancelling, ingestVars>>

-----------------------------------------------------------------------------
(* Ingestor: parsing of Twelve Data responses (ingestor_twelve/app/main.py) *)

MaxItems == 3

\* A field of an item of data["values"]: None (also what item.get answers for
\* an absent key) or a JSON string
None == "None"
FieldTexts == {"101.50", "800000", "invalid"}

\* float(text): the value in hundredths, or ValueError
to_float(text) ==
    IF text = "101.50" THEN [raised |-> FALSE, value |-> 10150]
    ELSE IF text = "800000" THEN [raised |-> FALSE, value |-> 80000000]
    ELSE [raised |-> TRUE, value |-> 0]

\* int(text): the value, or ValueError for text that is no integer literal
to_int(text) ==
    IF text = "800000" THEN [raised |-> FALSE, value |-> 800000]
    ELSE [raised |-> TRUE, value |-> 0]

\* float(item.get(f, 0)) if item.get(f) is not None else None
OptFloat(v) == IF v = None THEN [raised |-> FALSE, value |-> Null]
               ELSE [raised |-> to_float(v).raised, value |-> Some(to_float(v).value)]
OptInt(v) == IF v = None THEN [raised |-> FALSE, value |-> Null]
             ELSE [raised |-> to_int(v).raised, value |-> Some(to_int(v).value)]

Parsers == {"intraday", "fx", "crypto"}

\* The conversion of the volume field: int for IntradayPrice, float for
\* CryptoPrice; FXRate has no volume
Volume(parser, v) ==
    IF parser = "intraday" THEN OptInt(v)
    ELSE IF parser = "crypto" THEN OptFloat(v)
    ELSE [raised |-> FALSE, value |-> Null]

NoRecord == [src |-> 0, datetime |-> "", open |-> Null, high |-> Null,
             low |-> Null, close |-> Null, volume |-> Null]

\* A parser whose loop has no try block: a field that does not convert ends
\* the parse
parse_item_aborting(parser, item, i) ==
    IF ~item.is_object THEN [outcome |-> "abort", record |-> NoRecord]
    ELSE IF \/ OptFloat(item.open).raised \/ OptFloat(item.high).raised
            \/ OptFloat(item.low).raised \/ OptFloat(item.close).raised
            \/ Volume(parser, item.volume).raised
        THEN [outcome |-> "abort", record |-> NoRecord]
    ELSE IF item.datetime = None
        THEN [outcome |-> "skip", record |-> NoRecord]
    ELSE [outcome |-> "record",
          record |-> [src |-> i,
                      datetime |-> IF item.datetime = "absent" THEN "" ELSE item.datetime,
                      open |-> OptFloat(item.open).value,
                      high |-> OptFloat(item.high).value,
                      low |-> OptFloat(item.low).value,
                      close |-> OptFloat(item.close).value,
                      volume |-> Volume(parser, item.volume).value]]

\* The body of the loop of _parse_intraday_response, _parse_fx_response and
\* _parse_crypto_response for the i-th item.  item.get on a value that is no
\* object raises AttributeError, which the except clause does not catch; a
\* conversion that raises ValueError or TypeError skips the item; so does
\* the validation error of the record model for a datetime of None.
parse_item(parser, item, i) ==
    IF ~item.is_object THEN [outcome |-> "abort", record |-> NoRecord]
    ELSE IF \/ OptFloat(item.open).raised \/ OptFloat(item.high).raised
            \/ OptFloat(item.low).raised \/ OptFloat(item.close).raised
            \/ Volume(parser, item.volume).raised
        THEN [outcome |-> "skip", record |-> NoRecord]
    ELSE IF item.datetime = None
        THEN [outcome |-> "skip", record |-> NoRecord]
    ELSE [outcome |-> "record",
          record |-> [src |-> i,
                      datetime |-> IF item.datetime = "absent" THEN "" ELSE item.datetime,
                      open |-> OptFloat(item.open).value,
                      high |-> OptFloat(item.high).value,
                      low |-> OptFloat(item.low).value,
                      close |-> OptFloat(item.close).value,
                      volume |-> Volume(parser, item.volume).value]]

\* The loop over data["values"] from item i on, prices holding the records
\* appended so far
RECURSIVE parse_from(_, _, _, _)
parse_from(parser, values, i, prices) ==
    IF i > Len(values) THEN [raised |-> FALSE, records |-> prices]
    ELSE LET r == parse_item(parser, values[i], i)
         IN  IF r.outcome = "abort" THEN [raised |-> TRUE, records |-> <<>>]
             ELSE IF r.outcome = "skip" THEN parse_from(parser, values, i + 1, prices)
             ELSE parse_from(parser, values, i + 1, Append(prices, r.record))

\* _parse_intraday_response / _parse_fx_response / _parse_crypto_response
parse_response(parser, values) == parse_from(parser, values, 1, <<>>)

\* Items of a response: a well-formed one, one with a field that is no
\* number, one whose volume is no integer literal, one with every field
\* absent, one whose datetime is null, and a value that is no object
Item(dt, open, volume) ==
    [is_object |-> TRUE, datetime |-> dt, open |-> open, high |-> "101.50",
     low |-> "101.50", close |-> "101.50", volume |-> volume]
ParseItems ==
    {Item("09:30", "101.50", "800000"),
     Item("09:31", "invalid", "800000"),
     Item("09:32", "101.50", "101.50"),
     [is_object |-> TRUE, datetime |-> "absent", open |-> None, high |-> None,
      low |-> None, close |-> None, volume |-> None],
     Item(None, "101.50", "800000"),
     [is_object |-> FALSE, datetime |-> None, open |-> None, high |-> None,
      low |-> None, close |-> None, volume |-> None]}

RECURSIVE SeqsUpTo(_, _)
SeqsUpTo(S, n) ==
    IF n = 0 THEN {<<>>}
    ELSE SeqsUpTo(S, n - 1)
             \cup {Append(q, x) : q \in {r \in SeqsUpTo(S, n - 1) : Len(r) = n - 1}, x \in S}

NoParsing == [pc |-> "idle", parser |-> "none", values |-> <<>>,
              raised |-> FALSE, records |-> <<>>]

ParseResponse ==
    /\ parsing.pc = "input"
    /\ LET r == parse_response(parsing.parser, parsing.values)
       IN  parsing' = [parsing EXCEPT !.pc = "done", !.raised = r.raised,
                                      !.records = r.records]
    /\ UNCHANGED <<batch, fetch, vendor_symbol_map>>
    /\ UNCHANGED backendVars

-----------------------------------------------------------------------------
(* Ingestor: batch ingestion of EODHD prices (ingestor_eodhd/app/main.py) *)

NoBatch == [pc |-> "idle", entries |-> <<>>, results |-> <<>>]

MaxEntries == 3

\* A field of an entry that is absent or empty: not all([...]) skips it
Missing == <<>>

\* IngestResponse for the i-th entry
IngestResponse(i, entry, rows_written) ==
    [src |-> i, symbol |-> entry.symbol, from_date |-> entry.from_date,
     to_date |-> entry.to_date, rows_written |-> rows_written]

\* A loop body that answers nothing for an entry whose fetch or write raised
ingest_entry_dropping(entry, i) ==
    IF entry.symbol = Missing \/ entry.from_date = Missing \/ entry.to_date = Missing
        THEN [responded |-> FALSE, response |-> IngestResponse(i, entry, 0)]
    ELSE IF strptime(entry.from_date).raised \/ strptime(entry.to_date).raised
        THEN [responded |-> FALSE, response |-> IngestResponse(i, entry, 0)]
    ELSE IF entry.vendor = "fetch_raises" \/ entry.vendor = "write_raises"
        THEN [responded |-> FALSE, response |-> IngestResponse(i, entry, 0)]
    ELSE IF entry.vendor = "empty"
        THEN [responded |-> TRUE, response |-> IngestResponse(i, entry, 0)]
    ELSE [responded |-> TRUE, response |-> IngestResponse(i, entry, entry.rows)]

\* The body of the loop of ingest_eodhd_prices_batch for the i-th entry.
\* entry.vendor is what happens when the entry is fetched and written: the
\* vendor has rows and they are written, the vendor has no data, the fetch
\* raises, or a write to the warehouse raises.
ingest_entry(entry, i) ==
    IF entry.symbol = Missing \/ entry.from_date = Missing \/ entry.to_date = Missing
        THEN [responded |-> FALSE, response |-> IngestResponse(i, entry, 0)]
    ELSE IF strptime(entry.from_date).raised \/ strptime(entry.to_date).raised
        THEN [responded |-> FALSE, response |-> IngestResponse(i, entry, 0)]
    ELSE IF entry.vendor = "fetch_raises" \/ entry.vendor = "write_raises"
        THEN [responded |-> TRUE, response |-> IngestResponse(i, entry, 0)]
    ELSE IF entry.vendor = "empty"
        THEN [responded |-> TRUE, response |-> IngestResponse(i, entry, 0)]
    ELSE [responded |-> TRUE, response |-> IngestResponse(i, entry, entry.rows)]

\* The loop over the entries of the request from entry i on
RECURSIVE ingest_from(_, _, _)
ingest_from(entries, i, results) ==
    IF i > Len(entries) THEN results
    ELSE LET r == ingest_entry(entries[i], i)
         IN  ingest_from(entries, i + 1,
                         IF r.responded THEN Append(results, r.response) ELSE results)

\* ingest_eodhd_prices_batch
ingest_eodhd_prices_batch(entries) == ingest_from(entries, 1, <<>>)

ValidDate == <<"2", "0", "2", "4", "-", "0", "9", "-", "0", "1">>
MalformedDate == <<"2", "0", "2", "4", "/", "0", "9", "/", "0", "1">>
UnpaddedDate == <<"2", "0", "2", "4", "-", "9", "-", "1">>
SymbolText == <<"A", "A", "P", "L">>

Entry(symbol, from_date, to_date, vendor) ==
    [symbol |-> symbol, from_date |-> from_date, to_date |-> to_date,
     vendor |-> vendor, rows |-> 2]

\* Entries of a batch request: complete ones with each outcome of the fetch
\* and the writes, one without symbol, one without to_date, one with a
\* malformed from_date, one with a from_date whose month and day have one digit
BatchEntries ==
    {Entry(SymbolText, ValidDate, ValidDate, v) :
         v \in {"rows", "empty", "fetch_raises", "write_raises"}}
    \cup {Entry(Missing, ValidDate, ValidDate, "rows"),
          Entry(SymbolText, ValidDate, Missing, "rows"),
          Entry(SymbolText, MalformedDate, ValidDate, "rows"),
          Entry(SymbolText, UnpaddedDate, ValidDate, "rows")}

IngestBatch ==
    /\ batch.pc = "input"
    /\ batch' = [batch EXCEPT !.pc = "done",
                              !.results = ingest_eodhd_prices_batch(batch.entries)]
    /\ UNCHANGED <<parsing, fetch, vendor_symbol_map>>
    /\ UNCHANGED backendVars

-----------------------------------------------------------------------------
(* Ingestor: vendor fetch with retries (_fetch_eodhd_data, _fetch_twelve_data) *)

NoResult == [kind |-> "none", code |-> 0]
NoFetch == [pc |-> "idle", vendor |-> "none", attempt |-> 0, requests |-> 0,
            responses |-> <<>>, result |-> NoResult]

\* Settings.max_retries
max_retries == 3

Vendors == {"eodhd", "twelve"}

\* What one HTTP request can come to: a response with a status and a body,
\* a timeout of the client, or another exception (connection refused, a
\* body that is no JSON).  A body is a JSON list, an object with "values",
\* an object reporting an error, or anything else.
Bodies == {"list", "values", "error", "other"}
Responses ==
    {[kind |-> "response", status |-> 200, body |-> b] : b \in Bodies}
    \cup {[kind |-> "response", status |-> c, body |-> "other"] : c \in {401, 429, 503}}
    \cup {[kind |-> "timeout", status |-> 0, body |-> "other"],
          [kind |-> "exception", status |-> 0, body |-> "other"]}

Return == [kind |-> "return", exc |-> "none", code |-> 200]
Continue == [kind |-> "continue", exc |-> "none", code |-> 0]
Raise(exc, code) == [kind |-> "raise", exc |-> exc, code |-> code]

\* The handling of a 200 response: _fetch_eodhd_data returns a list,
\* _fetch_twelve_data an object with "values"
body_outcome(vendor, body) ==
    IF vendor = "eodhd"
        THEN IF body = "list" THEN Return
             ELSE IF body = "error" THEN Raise("HTTPException", 400)
             ELSE Raise("HTTPException", 502)
    ELSE IF body = "error" THEN Raise("HTTPException", 400)
         ELSE IF body # "values" THEN Raise("HTTPException", 502)
         ELSE Return

\* The body of the try statement in the retry loop
try_body(vendor, attempt, resp) ==
    IF resp.kind = "timeout" THEN Raise("TimeoutException", 0)
    ELSE IF resp.kind = "exception" THEN Raise("Exception", 0)
    ELSE IF resp.status = 200 THEN body_outcome(vendor, resp.body)
    ELSE IF resp.status = 401 THEN Raise("HTTPException", 401)
    ELSE IF resp.status = 429
        THEN IF attempt < max_retries - 1 THEN Continue
             ELSE Raise("HTTPException", 429)
    ELSE Raise("HTTPException", resp.status)

\* An iteration that keeps the attempt number when it retries
fetch_attempt_redoing(vendor, attempt, resp) ==
    LET t == try_body(vendor, attempt, resp)
    IN  IF t.kind = "return" THEN [outcome |-> t, attempt |-> attempt]
        ELSE IF t.kind = "continue" THEN [outcome |-> t, attempt |-> attempt]
        ELSE IF t.exc = "TimeoutException"
            THEN IF attempt < max_retries - 1
                     THEN [outcome |-> Continue, attempt |-> attempt]
                 ELSE [outcome |-> Raise("HTTPException", 408), attempt |-> attempt]
        ELSE IF attempt < max_retries - 1
                 THEN [outcome |-> Continue, attempt |-> attempt]
             ELSE [outcome |-> Raise("HTTPException", 500), attempt |-> attempt]

\* One iteration of the retry loop: the try body and its except clauses.
\* An HTTPException raised in the try body is an Exception and is caught
\* by the second clause.  The result carries the attempt number of the
\* next iteration.
fetch_attempt(vendor, attempt, resp) ==
    LET t == try_body(vendor, attempt, resp)
    IN  IF t.kind = "return" THEN [outcome |-> t, attempt |-> attempt]
        ELSE IF t.kind = "continue" THEN [outcome |-> t, attempt |-> attempt + 1]
        ELSE IF t.exc = "TimeoutException"
            THEN IF attempt < max_retries - 1
                     THEN [outcome |-> Continue, attempt |-> attempt + 1]
                 ELSE [outcome |-> Raise("HTTPException", 408), attempt |-> attempt]
        ELSE IF attempt < max_retries - 1
                 THEN [outcome |-> Continue, attempt |-> attempt + 1]
             ELSE [outcome |-> Raise("HTTPException", 500), attempt |-> attempt]

\* A call of _fetch_eodhd_data or _fetch_twelve_data enters its loop
FetchStart(vendor) ==
    /\ fetch.pc = "idle"
    /\ fetch' = IF max_retries > 0
                    THEN [fetch EXCEPT !.pc = "request", !.vendor = vendor]
                ELSE [fetch EXCEPT !.pc = "done", !.vendor = vendor,
                                   !.result = [kind |-> "error", code |-> 500]]
    /\ UNCHANGED <<parsing, batch, vendor_symbol_map>>
    /\ UNCHANGED backendVars

\* The request of the current iteration is answered with resp
FetchAttempt(resp) ==
    /\ fetch.pc = "request"
    /\ LET r == fetch_attempt(fetch.vendor, fetch.attempt, resp)
           sent == [fetch EXCEPT !.requests = @ + 1,
                                 !.responses = Append(@, resp),
                                 !.attempt = r.attempt]
       IN  fetch' =
               IF r.outcome.kind = "return"
                   THEN [sent EXCEPT !.pc = "done",
                                     !.result = [kind |-> "data", code |-> 200]]
               ELSE IF r.outcome.kind = "raise"
                   THEN [sent EXCEPT !.pc = "done",
                                     !.result = [kind |-> "error", code |-> r.outcome.code]]
               ELSE IF r.attempt < max_retries THEN sent
               ELSE [sent EXCEPT !.pc = "done",
                                 !.result = [kind |-> "error", code |-> 500]]
    /\ UNCHANGED <<parsing, batch, vendor_symbol_map>>
    /\ UNCHANGED backendVars

-----------------------------------------------------------------------------
(* Ingestor: the vendor_symbol_map table (_update_vendor_symbol_map) *)

MaxMapRows == 4

MapSymbols == {"AAPL", "EUR/USD"}
Mics == {"US", "us"}
AssetTypes == {"equity", "fx", "crypto"}

\* str.upper on the market codes
upper(mic) == IF mic = "us" THEN "US" ELSE mic

\* SELECT COUNT(*) ... WHERE vendor = 'eodhd' AND symbol = ... AND mic = ...
count_eodhd(table, symbol, mic) ==
    Cardinality({i \in 1..Len(table) :
                    /\ table[i].vendor = "eodhd"
                    /\ table[i].symbol = symbol
                    /\ table[i].mic = mic})

\* _update_vendor_symbol_map of the EODHD ingestor; a failing query or
\* insert is logged and leaves the table as it is
update_vendor_symbol_map_eodhd(table, symbol, mic, ok) ==
    IF ~ok THEN table
    ELSE IF count_eodhd(table, symbol, mic) > 0 THEN table
    ELSE Append(table, [vendor |-> "eodhd",
                        vendor_symbol |-> symbol,
                        symbol |-> symbol \o "." \o mic,
                        mic |-> upper(mic),
                        asset_type |-> "equity"])

\* SELECT COUNT(*) ... WHERE vendor = 'twelve_data' AND symbol = ... AND asset_type = ...
count_twelve(table, symbol, asset_type) ==
    Cardinality({i \in 1..Len(table) :
                    /\ table[i].vendor = "twelve_data"
                    /\ table[i].symbol = symbol
                    /\ table[i].asset_type = asset_type})

\* _update_vendor_symbol_map of the Twelve Data ingestor
update_vendor_symbol_map_twelve(table, symbol, asset_type, mic, ok) ==
    IF ~ok THEN table
    ELSE IF count_twelve(table, symbol, asset_type) > 0 THEN table
    ELSE Append(table, [vendor |-> "twelve_data",
                        vendor_symbol |-> symbol,
                        symbol |-> IF asset_type = "equity"
                                       THEN symbol \o "." \o mic ELSE symbol,
                        mic |-> IF asset_type = "equity" THEN upper(mic) ELSE "N/A",
                        asset_type |-> asset_type])

\* An EODHD ingestion of symbol on market mic reaches the mapping update
UpdateMapEodhd(symbol, mic, ok) ==
    /\ Len(vendor_symbol_map) < MaxMapRows
    /\ vendor_symbol_map' =
           update_vendor_symbol_map_eodhd(vendor_symbol_map, symbol, mic, ok)
    /\ UNCHANGED <<parsing, batch, fetch>>
    /\ UNCHANGED backendVars

\* A Twelve Data ingestion of symbol reaches the mapping update; every
\* caller leaves mic at its default
UpdateMapTwelve(symbol, asset_type, ok) ==
    /\ Len(vendor_symbol_map) < MaxMapRows
    /\ vendor_symbol_map' =
           update_vendor_symbol_map_twelve(vendor_symbol_map, symbol, asset_type, "US", ok)
    /\ UNCHANGED <<parsing, batch, fetch>>
    /\ UNCHANGED backendVars

-----------------------------------------------------------------------------
(* Specifications *)

\* No ingestor call is under way
IngestIdle ==
    /\ parsing = NoParsing
    /\ batch = NoBatch
    /\ fetch = NoFetch
    /\ vendor_symbol_map = <<>>

\* No job has been submitted, no backend request is under way
BackendIdle ==
    /\ jobs = <<>>
    /\ publisher = "none"
    /\ topic = <<>>
    /\ lastResp = NoResp
    /\ hs = [w \in Workers |-> Idle(0)]
    /\ gcs = {}
    /\ processed = {}
    /\ deliveries = 0
    /\ now = 0
    /\ cancelling = [s \in Sessions |-> NoRow]

Init ==
    /\ jobs = <<>>
    /\ publisher \in {"client", "none"}
    /\ topic = <<>>
    /\ lastResp = NoResp
    /\ hs = [w \in Workers |-> Idle(0)]
    /\ gcs = {}
    /\ processed = {}
    /\ deliveries = 0
    /\ now = 0
    /\ cancelling = [s \in Sessions |-> NoRow]
    /\ IngestIdle

MaxPipelineSteps == Len(PipelineSteps("montecarlo"))

CreateJobStep == \E type \in JobTypes, symbols \in SymbolCounts, dbOk, pubOk \in BOOLEAN :
                    CreateJob(type, symbols, dbOk, pubOk)
CancelJobStep == \E j \in JobIds : CancelJob(j)
ReceiveStep == \E w \in Workers, auth \in AuthHeaders :
                  \E data \in Malformed \cup {Encode(topic[i]) : i \in 1..Len(topic)} :
                      Receive(w, auth, data)
ProcessJobStep == \E w \in Workers, failAt \in 0..MaxPipelineSteps, errOk \in BOOLEAN :
                     ProcessJob(w, failAt, errOk)

\* The program as deployed: the job API, the topic and the worker
Next ==
    \/ CreateJobStep
    \/ CancelJobStep
    \/ Tick
    \/ ReceiveStep
    \/ ProcessJobStep

Spec == Init /\ [][Next]_vars

UpdateStatusStep == \E j \in JobIds, st \in Statuses : UpdateStatusCall(j, st)
SetErrorStep == \E j \in JobIds, e \in ErrorTexts : SetErrorCall(j, e)
SetResultsStep == \E j \in JobIds, m \in MetricsValues : SetResultsCall(j, m)
CreateJobCallStep == \E user \in Users, type \in JobTypes, symbols \in SymbolCounts :
                        CreateJobCall(user, type, symbols)
GetJobStep == \E j \in JobIds : GetJob(j)

\* The job records under any sequence of calls of the Job row methods and of
\* the API handlers
NextJobApi ==
    \/ CreateJobStep
    \/ CancelJobStep
    \/ GetJobStep
    \/ Tick
    \/ CreateJobCallStep
    \/ UpdateStatusStep
    \/ SetErrorStep
    \/ SetResultsStep

SpecJobApi == Init /\ [][NextJobApi]_vars

UpdateStatusKwStep == \E j \in JobIds, st \in Statuses, kw \in KwargSets :
                         UpdateStatusKwCall(j, st, kw)

\* The job records when update_status is also called with keyword arguments
NextJobKw ==
    \/ NextJobApi
    \/ UpdateStatusKwStep

SpecJobKw == Init /\ [][NextJobKw]_vars

CancelReadStep == \E s \in Sessions, j \in JobIds : CancelRead(s, j)
CancelWriteStep == \E s \in Sessions : CancelWrite(s)

\* cancel_job requests served by concurrent sessions while the status of
\* the job is updated
NextCancelRace ==
    \/ CreateJobStep
    \/ CancelReadStep
    \/ CancelWriteStep
    \/ UpdateStatusStep
    \/ Tick

SpecCancelRace == Init /\ [][NextCancelRace]_vars

\* Responses of the vendor handed to the parsers
InitParse ==
    /\ BackendIdle
    /\ parsing \in {[pc |-> "input", parser |-> p, values |-> v,
                      raised |-> FALSE, records |-> <<>>] :
                         p \in Parsers, v \in SeqsUpTo(ParseItems, MaxItems)}
    /\ batch = NoBatch
    /\ fetch = NoFetch
    /\ vendor_symbol_map = <<>>

NextParse == ParseResponse

SpecParse == InitParse /\ [][NextParse]_vars

\* Batch requests handed to the EODHD ingestor
InitBatch ==
    /\ BackendIdle
    /\ batch \in {[pc |-> "input", entries |-> e, results |-> <<>>] :
                      e \in SeqsUpTo(BatchEntries, MaxEntries)}
    /\ parsing = NoParsing
    /\ fetch = NoFetch
    /\ vendor_symbol_map = <<>>

NextBatch == IngestBatch

SpecBatch == InitBatch /\ [][NextBatch]_vars

\* Fetches from the vendors
InitFetch ==
    /\ BackendIdle
    /\ IngestIdle

FetchStartStep == \E vendor \in Vendors : FetchStart(vendor)

FetchAttemptStep == \E resp \in Responses : FetchAttempt(resp)

NextFetch ==
    \/ FetchStartStep
    \/ FetchAttemptStep

SpecFetch == InitFetch /\ [][NextFetch]_vars

\* The HTTP client has a timeout: each request comes to a response, a
\* timeout or another exception
SpecFetchLive == SpecFetch /\ WF_vars(FetchAttemptStep)

\* Sequential ingestions updating the vendor symbol map
UpdateMapEodhdStep ==
    \E symbol \in MapSymbols, mic \in Mics, ok \in BOOLEAN :
        UpdateMapEodhd(symbol, mic, ok)

UpdateMapTwelveStep ==
    \E symbol \in MapSymbols, asset_type \in AssetTypes, ok \in BOOLEAN :
        UpdateMapTwelve(symbol, asset_type, ok)

NextSymbolMap ==
    \/ UpdateMapEodhdStep
    \/ UpdateMapTwelveStep

SpecSymbolMap == InitFetch /\ [][NextSymbolMap]_vars

\* Date strings of requests: written with and without leading zeros, a day
\* after today, and one that is no date
DateStrings ==
    {y \o <<"-">> \o m \o <<"-">> \o d :
        y \in {<<"2", "0", "2", "4">>},
        m \in {<<"9">>, <<"0", "9">>, <<"1", "0">>},
        d \in {<<"0", "1">>}}
    \cup {<<"2", "0", "3", "0", "-", "0", "9", "-", "0", "1">>,
          <<"2", "0", "2", "4", "/", "0", "9", "/", "0", "1">>}

SubmitJobStep ==
    \E start, end \in DateStrings :
        \E type \in JobTypes, symbols \in SymbolCounts, dbOk, pubOk \in BOOLEAN :
            SubmitJob(type, symbols, start, end, dbOk, pubOk)

\* The backend API as deployed, from the request body on
NextApi ==
    \/ SubmitJobStep
    \/ CancelJobStep
    \/ GetJobStep
    \/ Tick

SpecApi == Init /\ [][NextApi]_vars

-----------------------------------------------------------------------------
(* Properties *)

Terminal == {"completed", "failed", "cancelled"}

\* Number of messages on the topic that carry job id j
MsgCount(tp, j) == Cardinality({i \in 1..Len(tp) : tp[i].job_id = j})

\* A successful create_job is the last API response
Submitted == lastResp.op = "create_job" /\ lastResp.code = HTTP_200_OK

AllowedTransitions ==
    {<<"queued", "running">>, <<"queued", "cancelled">>,
     <<"running", "completed">>, <<"running", "failed">>}

\* C2: every change of a record's status follows queued -> running ->
\* completed | failed or queued -> cancelled; no call changes the status of
\* a completed, failed or cancelled record.
C2_StatusFollowsLifecycle ==
    [][\A j \in DOMAIN jobs :
          jobs'[j].status # jobs[j].status
              => <<jobs[j].status, jobs'[j].status>> \in AllowedTransitions]_vars

\* Handler w leaves process_job in this step
Returns(w) == hs[w].pc = "process" /\ hs'[w].pc = "idle"

\* Handler w calls process_job in this step
Invokes(w) == hs[w].pc = "idle" /\ hs'[w].pc = "process"

\* C3: of two deliveries of a message handled one after the other only the
\* first executes process_job: a handler that did not overlap with another
\* one never runs process_job for a job that has already been processed.
C3_RedeliveryRunsNothing ==
    [][\A w \in Workers :
          Returns(w) /\ ~hs[w].raced => hs[w].msg.job_id \notin processed]_vars

\* C4: of two deliveries for a job handled concurrently at most one runs
\* process_job to completion: a handler that overlapped with another one on
\* the job never completes process_job for a job already processed.
C4_RaceCompletesOnce ==
    [][\A w \in Workers :
          Returns(w) /\ hs[w].raced /\ hs'[w].code = HTTP_200_OK
              => hs[w].msg.job_id \notin processed]_vars

\* The step is a cancel_job call that changed the record or the response
CancelStep ==
    /\ lastResp'.op = "cancel_job"
    /\ <<jobs, lastResp>>' # <<jobs, lastResp>>

\* C5: cancel_job by the owner of a job sets the status to cancelled only
\* for a queued job; for a running, completed, failed or cancelled job it
\* answers 400; whenever it does not cancel it changes no field of any record.
C5_CancelOnlyQueued ==
    [][CancelStep =>
          LET j == lastResp'.job_id
              owned == j \in DOMAIN jobs /\ jobs[j].user_id = CurrentUser
          IN  IF owned /\ jobs[j].status = "queued"
                  THEN /\ jobs'[j].status = "cancelled"
                       /\ lastResp'.code = HTTP_200_OK
              ELSE /\ jobs' = jobs
                   /\ owned => lastResp'.code = HTTP_400_BAD_REQUEST]_vars

C5_Witness ==
    /\ lastResp.op = "cancel_job"
    /\ lastResp.code = HTTP_400_BAD_REQUEST
    /\ lastResp.job_id \in DOMAIN jobs
    /\ jobs[lastResp.job_id].status = "running"
    /\ jobs[lastResp.job_id].user_id = CurrentUser

\* C6: a delivery for a job whose record is completed, failed or cancelled
\* never calls process_job.
C6_TerminalShortCircuits ==
    [][\A w \in Workers :
          Invokes(w) /\ hs'[w].msg.job_id \in DOMAIN jobs
              => jobs[hs'[w].msg.job_id].status \notin Terminal]_vars

\* C7: when process_job returns for a job that was queued or running, the
\* record is completed with started_at, finished_at and result_refs set, and
\* the delivery is acknowledged.
C7_SuccessCompletes ==
    [][\A w \in Workers :
          LET j == hs[w].msg.job_id
          IN  Returns(w) /\ hs'[w].code = HTTP_200_OK
                  /\ jobs[j].status \in {"queued", "running"}
                  => /\ jobs'[j].status = "completed"
                     /\ jobs'[j].started_at # Null
                     /\ jobs'[j].finished_at # Null
                     /\ jobs'[j].result_refs # Null
                     /\ IsAck(hs'[w].code)]_vars

\* C8: when load_prices raises inside process_job, the record ends failed
\* with an error, finished_at set and no result_refs.
C8_LoadFailureFails ==
    [][\A w \in Workers, errOk \in BOOLEAN :
          LET j == hs[w].msg.job_id
          IN  ProcessJob(w, 1, errOk) /\ PipelineSteps(hs[w].msg.type)[1] = "load"
                  => /\ jobs'[j].status = "failed"
                     /\ jobs'[j].error # Null
                     /\ jobs'[j].finished_at # Null
                     /\ jobs'[j].result_refs = Null]_vars

\* C9: when a call inside process_job raises, the push handler still answers
\* with a status that acknowledges the message.
C9_FailureAcked ==
    [][\A w \in Workers, errOk \in BOOLEAN :
          \A failAt \in 1..MaxPipelineSteps :
              ProcessJob(w, failAt, errOk) => IsAck(hs'[w].code)]_vars

\* Message data that is missing, not base64 or not JSON
Undecodable == {d \in Malformed : d.kind \in {"missing", "bad_base64", "bad_json"}}

\* C10: an authenticated delivery with undecodable message data is answered
\* with a status that acknowledges the message, and process_job is not called.
C10_PoisonAcked ==
    [][\A w \in Workers, data \in Undecodable :
          Receive(w, "Bearer x", data)
              => IsAck(hs'[w].code) /\ hs'[w].pc = "idle"]_vars

\* Authorization headers that are absent or do not start with "Bearer "
Unauthenticated == {"absent", "Basic x"}

\* C11: a delivery whose Authorization header is absent or does not start
\* with "Bearer " is answered 401, which is no acknowledgement; the handler
\* holds no decoded job data, does not call process_job, and the bucket, the
\* set of processed jobs and the job records are unchanged.
C11_UnauthenticatedRejected ==
    [][\A w \in Workers, auth \in Unauthenticated :
          \A data \in Malformed \cup {Encode(topic[i]) : i \in 1..Len(topic)} :
              Receive(w, auth, data)
                  => /\ hs'[w].code = HTTP_401_UNAUTHORIZED
                     /\ ~IsAck(hs'[w].code)
                     /\ hs'[w].pc = "idle"
                     /\ hs'[w].msg = NoMsg
                     /\ <<gcs, processed, jobs>>' = <<gcs, processed, jobs>>]_vars

\* A delivery of a published job message was answered 401 while its record
\* is in the table
C11_Witness ==
    /\ \E w \in Workers : hs[w].pc = "idle" /\ hs[w].code = HTTP_401_UNAUTHORIZED
    /\ Len(topic) > 0
    /\ gcs = {}

\* C12: when the row has been persisted and publish_job raises, create_job
\* answers with an error and the row is in the table in status queued.
C12_PublishFailureKeepsRecord ==
    [][\A type \in JobTypes, symbols \in SymbolCounts :
          CreateJob(type, symbols, TRUE, FALSE) /\ publisher = "client"
              => /\ lastResp'.code = HTTP_500_INTERNAL_SERVER_ERROR
                 /\ FreshId \in DOMAIN jobs'
                 /\ jobs'[FreshId].status = "queued"
                 /\ topic' = topic]_vars

\* create_job failed on the publish and the row is there, still queued
C12_Witness ==
    /\ lastResp.op = "create_job"
    /\ lastResp.code = HTTP_500_INTERNAL_SERVER_ERROR
    /\ publisher = "client"
    /\ \E j \in DOMAIN jobs : jobs[j].status = "queued"
    /\ topic = <<>>

\* C13: a request whose two dates pass the format check and whose start is
\* the same calendar day as its end or a later one is answered with a
\* validation error; no row is created and no message is published.
C13_StartNotBeforeEndRejected ==
    [][\A start, end \in DateStrings :
          \A type \in JobTypes, symbols \in SymbolCounts :
              /\ validate_dates(start) /\ validate_dates(end)
              /\ DateLE(strptime(end).date, strptime(start).date)
              /\ SubmitJob(type, symbols, start, end, TRUE, TRUE)
              => /\ lastResp'.code = HTTP_422_UNPROCESSABLE_ENTITY
                 /\ jobs' = jobs
                 /\ topic' = topic]_vars

\* C14: once finished_at of a record is set, no call changes its finished_at,
\* result_refs or error.
C14_FinishedRecordFrozen ==
    [][\A j \in DOMAIN jobs :
          jobs[j].finished_at # Null
              => /\ jobs'[j].finished_at = jobs[j].finished_at
                 /\ jobs'[j].result_refs = jobs[j].result_refs
                 /\ jobs'[j].error = jobs[j].error]_vars

\* C15: result_refs of a record is set only when its status is completed
\* and error only when its status is failed.
C15_ResultsOnlyCompleted ==
    \A j \in DOMAIN jobs :
        /\ jobs[j].result_refs # Null => jobs[j].status = "completed"
        /\ jobs[j].error # Null => jobs[j].status = "failed"

\* C16: update_status("running") on a record that is already running changes
\* no field of any record, and applying update_status("running") twice to
\* a record, the second time at any later moment, equals applying it once.
C16_RunningIdempotent ==
    [][\A j \in DOMAIN jobs :
          /\ UpdateStatusCall(j, "running") /\ jobs[j].status = "running"
                 => jobs' = jobs
          /\ UpdateStatusCall(j, "running")
                 => \A t \in now..MaxTime :
                        update_status(jobs'[j], "running", NoKwargs, t) = jobs'[j]]_vars

\* update_status was called on a running record after its start
C16_Witness ==
    /\ lastResp.op = "update_status"
    /\ \E j \in DOMAIN jobs :
           /\ jobs[j].status = "running"
           /\ jobs[j].started_at # Null
           /\ Get(jobs[j].started_at) < now

\* C17: the progress of a record is 0 when queued, 1 when completed, 0 when
\* failed and null when cancelled, and every progress that is not null lies
\* between 0 and 1.
C17_ProgressByStatus ==
    \A j \in DOMAIN jobs :
        LET p == calculate_job_progress(jobs[j])
        IN  /\ jobs[j].status = "queued" => p = Some(Frac(0, 1))
            /\ jobs[j].status = "completed" => p = Some(Frac(1, 1))
            /\ jobs[j].status = "failed" => p = Some(Frac(0, 1))
            /\ jobs[j].status = "cancelled" => p = Null
            /\ p # Null => /\ Get(p).den > 0
                           /\ FracLE(Frac(0, 1), Get(p))
                           /\ FracLE(Get(p), Frac(1, 1))

\* A running record whose estimate is held down by the cap
C17_Witness ==
    \E j \in DOMAIN jobs :
        /\ jobs[j].status = "running"
        /\ jobs[j].started_at # Null
        /\ total_seconds(Get(jobs[j].started_at), jobs[j].created_at)
               > estimate_job_duration(jobs[j].type, jobs[j].symbols)
        /\ calculate_job_progress(jobs[j]) = Some(Frac(9, 10))

\* The duration heuristic as claimed: a base per kind and two seconds per
\* symbol, the latter at most 60
HeuristicDuration(type, n) ==
    (CASE type = "montecarlo" -> 30 [] type = "markowitz" -> 15
       [] type = "blackscholes" -> 10 [] type = "backtest" -> 45)
    + (IF 2 * n <= 60 THEN 2 * n ELSE 60)

\* C18: the progress reported for a running record with started_at set is
\* min(0.9, elapsed / heuristicDuration), elapsed being the time the job has
\* been running: from started_at to the moment of the query; the duration
\* is positive and the progress is at most 0.9.
C18_RunningProgressByElapsed ==
    \A j \in DOMAIN jobs :
        jobs[j].status = "running" /\ jobs[j].started_at # Null
            => LET p == Get(calculate_job_progress(jobs[j]))
                   elapsed == total_seconds(now, Get(jobs[j].started_at))
                   duration == HeuristicDuration(jobs[j].type, jobs[j].symbols)
               IN  /\ duration > 0
                   /\ FracLE(p, Frac(9, 10))
                   /\ FracEq(p, MinNineTenths(elapsed, duration))

\* C19: while a record stays running its progress never decreases from one
\* state to the next, so no sequence of queries sees it decrease; the
\* progress of a completed record is 1.
C19_ProgressMonotone ==
    [][\A j \in DOMAIN jobs :
          /\ jobs[j].status = "running" /\ jobs'[j].status = "running"
                 => FracLE(Get(calculate_job_progress(jobs[j])),
                           Get(calculate_job_progress(jobs'[j])))
          /\ jobs'[j].status = "completed"
                 => /\ calculate_job_progress(jobs'[j]) = Some(Frac(1, 1))
                    /\ get_job(jobs', j, jobs'[j].user_id).body # Null
                    /\ Get(get_job(jobs', j, jobs'[j].user_id).body).progress
                           = Some(Frac(1, 1))]_vars

\* A job that was started after a wait and has completed is queried
C19_Witness ==
    /\ lastResp.op = "get_job"
    /\ lastResp.code = HTTP_200_OK
    /\ \E j \in DOMAIN jobs :
           /\ jobs[j].status = "completed"
           /\ jobs[j].started_at # Null
           /\ Get(jobs[j].started_at) > jobs[j].created_at

\* C20: get_job and cancel_job answer 404 for a job id without a row and 403
\* for a row of another owner; they return no job data and change no record
\* then, and no caller is ever given the data of another owner's job.
C20_NotFoundAndAccessDenied ==
    [][\A j \in JobIds :
          LET absent == j \notin DOMAIN jobs
              foreign == j \in DOMAIN jobs /\ jobs[j].user_id # CurrentUser
          IN  /\ CancelJob(j) /\ absent
                     => lastResp'.code = HTTP_404_NOT_FOUND /\ jobs' = jobs
              /\ CancelJob(j) /\ foreign
                     => lastResp'.code = HTTP_403_FORBIDDEN /\ jobs' = jobs
              /\ GetJob(j) /\ absent
                     => /\ lastResp'.code = HTTP_404_NOT_FOUND
                        /\ get_job(jobs, j, CurrentUser).body = Null
                        /\ jobs' = jobs
              /\ GetJob(j) /\ foreign
                     => /\ lastResp'.code = HTTP_403_FORBIDDEN
                        /\ get_job(jobs, j, CurrentUser).body = Null
                        /\ jobs' = jobs
              /\ \A u \in Users :
                     get_job(jobs, j, u).body # Null => jobs[j].user_id = u]_vars

\* A request for the job of another owner was answered 403
C20_Witness ==
    /\ lastResp.code = HTTP_403_FORBIDDEN
    /\ lastResp.job_id \in DOMAIN jobs
    /\ jobs[lastResp.job_id].user_id # CurrentUser

\* The names an artifact of a job can have
ArtifactNames == {"metrics.json", "prices.csv", "simulation_paths.csv",
                  "portfolio_weights.csv", "summary.json", "error.json"}

\* C21: every object process_job writes has the key jobs/{job_id}/{name}
\* with name one of the artifact names, and executing process_job again for
\* the same job data with the same outcome adds no object key.
C21_RerunAddsNoKeys ==
    [][\A w \in Workers, errOk \in BOOLEAN :
          \A failAt \in 0..MaxPipelineSteps :
              ProcessJob(w, failAt, errOk)
                  => /\ \A k \in gcs' \ gcs :
                            \E name \in ArtifactNames :
                                k = ObjectKey(hs[w].msg.job_id, name)
                     /\ process_job(hs[w].msg, gcs', failAt, errOk).gcs = gcs']_vars

\* Two executions for the job have completed and its objects are there
C21_Witness ==
    /\ \A w \in Workers :
           /\ hs[w].pc = "idle"
           /\ hs[w].code = HTTP_200_OK
           /\ hs[w].msg.job_id \in processed
    /\ \E j \in processed : ObjectKey(j, "summary.json") \in gcs

\* The table artifacts a successful execution owes: the loaded prices for
\* every kind, the simulated paths for montecarlo, the weights for markowitz
OwedTables(type) ==
    {"prices.csv"}
        \cup (IF type = "montecarlo" THEN {"simulation_paths.csv"} ELSE {})
        \cup (IF type = "markowitz" THEN {"portfolio_weights.csv"} ELSE {})

\* C22: after a successful execution of process_job the bucket holds the
\* price table artifact and the artifact of each auxiliary table of the
\* job kind, and each of them is in the returned artifact list.
C22_TablesWritten ==
    [][\A w \in Workers, errOk \in BOOLEAN :
          ProcessJob(w, 0, errOk)
              => LET msg == hs[w].msg
                     r == process_job(msg, gcs, 0, errOk)
                 IN  \A f \in OwedTables(msg.type) :
                         /\ ObjectKey(msg.job_id, f) \in gcs'
                         /\ \E i \in 1..Len(r.artifacts) :
                                r.artifacts[i] = ObjectKey(msg.job_id, f)]_vars

\* C23: once a record exists, no call changes its id, user_id or created_at.
C23_IdentityImmutable ==
    [][\A j \in DOMAIN jobs :
          /\ j \in DOMAIN jobs'
          /\ jobs'[j].user_id = jobs[j].user_id
          /\ jobs'[j].created_at = jobs[j].created_at]_vars

\* C24: the write of cancel_job is applied only when the status of the job
\* is still queued at the moment of the write.
C24_CancelWriteOnlyQueued ==
    [][\A s \in Sessions :
          CancelWrite(s) => jobs[cancelling[s].job_id].status = "queued"]_vars

\* C25: the signed URLs a successful execution of process_job returns are
\* those of the objects that execution wrote, its listed artifacts and the
\* summary, whatever the bucket held for the job before.
C25_SignedUrlsOfOwnArtifacts ==
    [][\A w \in Workers, errOk \in BOOLEAN :
          ProcessJob(w, 0, errOk)
              => LET msg == hs[w].msg
                     r == process_job(msg, gcs, 0, errOk)
                 IN  r.signed_urls
                         = {r.artifacts[i] : i \in 1..Len(r.artifacts)}
                               \cup {ObjectKey(msg.job_id, "summary.json")}]_vars

\* The numeric fields of an item all parse: each is absent or converts, the
\* volume as the parser converts it
NumericFieldsParse(parser, item) ==
    /\ \A v \in {item.open, item.high, item.low, item.close} :
           v = None \/ ~to_float(v).raised
    /\ \/ item.volume = None
       \/ parser = "fx"
       \/ parser = "intraday" /\ ~to_int(item.volume).raised
       \/ parser = "crypto" /\ ~to_float(item.volume).raised

\* The items the records of a finished parse were made from, in order
Sources == [i \in 1..Len(parsing.records) |-> parsing.records[i].src]

\* The indices in 1..n that satisfy Keep, in increasing order
Kept(n, Keep(_)) == SelectSeq([i \in 1..n |-> i], Keep)

Eligible(entry) ==
    /\ entry.symbol # Missing /\ entry.from_date # Missing /\ entry.to_date # Missing
    /\ ~strptime(entry.from_date).raised /\ ~strptime(entry.to_date).raised

\* A date written as four digits, two digits and two digits joined by "-"
IsYYYYMMDD(v) ==
    /\ Len(v) = 10
    /\ v[5] = "-" /\ v[8] = "-"
    /\ \A i \in {1, 2, 3, 4, 6, 7, 9, 10} : IsDigit(v[i])
    /\ ~strptime(v).raised

\* An entry with symbol, from_date and to_date, both dates in YYYY-MM-DD
HasIsoDates(entry) ==
    /\ entry.symbol # Missing /\ entry.from_date # Missing /\ entry.to_date # Missing
    /\ IsYYYYMMDD(entry.from_date) /\ IsYYYYMMDD(entry.to_date)

Is401(resp) == resp.kind = "response" /\ resp.status = 401
Is429(resp) == resp.kind = "response" /\ resp.status = 429

\* C28: a fetch answered with 401 fails at once with an HTTP 401 error and
\* issues no further request; a fetch whose every attempt is answered with
\* 429 fails with an HTTP 429 error after exactly max_retries attempts.
C28_AuthAndRateLimitErrors ==
    /\ \A i \in 1..Len(fetch.responses) :
           Is401(fetch.responses[i])
               => /\ i = Len(fetch.responses)
                  /\ fetch.pc = "done"
                  /\ fetch.result = [kind |-> "error", code |-> 401]
    /\ (/\ fetch.pc = "done"
        /\ fetch.responses # <<>>
        /\ \A i \in 1..Len(fetch.responses) : Is429(fetch.responses[i]))
           => /\ fetch.result = [kind |-> "error", code |-> 429]
              /\ fetch.requests = max_retries

C30_OneMappingPerSymbol ==
    \A i, k \in 1..Len(vendor_symbol_map) :
        (/\ vendor_symbol_map[i].vendor = vendor_symbol_map[k].vendor
         /\ vendor_symbol_map[i].vendor_symbol = vendor_symbol_map[k].vendor_symbol
         /\ vendor_symbol_map[i].mic = vendor_symbol_map[k].mic
         /\ vendor_symbol_map[i].asset_type = vendor_symbol_map[k].asset_type)
            => i = k

====
